---- MODULE Spec2Model ----
(***************************************************************************)
(* A model of hypatia's HumanPlayer.move (the stepwise degrading movement  *)
(* search against the solid tiles of a scene) and of the NPC activation    *)
(* property (setter, deleter and hooks), from src/hypatia/player.py; of the *)
(* frame loop and scene stack of src/hypatia/game.py; and of Tile, from    *)
(* src/hypatia/tile.py.                                                    *)
(*                                                                         *)
(* Floating point positions are fixed-point numbers: one pixel is SubPixel *)
(* units, so 1.0 is SubPixel and time_elapsed_milliseconds / 1000.0 is an  *)
(* exact number of units for the frame times the model draws.              *)
(***************************************************************************)
EXTENDS Integers, Sequences, FiniteSets

(* ------------------------------ bounds --------------------------------- *)

\* units per pixel of the fixed-point representation of float coordinates
SubPixel == 2
\* largest velocity component, in pixels per second
MaxVelocity == 3
\* largest frame time, in units of 1000 / SubPixel milliseconds
MaxElapsed == 2
\* largest number of hook invocations the NPC model counts
MaxHookCalls == 3
\* largest number of scenes constructed in one run of the game
MaxScenes == 4
\* largest depth of the scene stack
MaxStack == 3
\* largest number of scene updates (frames) in one run
MaxFrames == 3
\* largest number of events pygame.event.get() returns in one frame
MaxEvents == 2
\* largest number of frames of a tile's animation
MaxAnimationFrames == 3
\* largest duration of one frame of a tile's animation
MaxDuration == 2
\* largest timedelta passed to Tile.update
MaxDelta == 3

(* ----------------------------- geometry -------------------------------- *)

Max(a, b) == IF a >= b THEN a ELSE b

Min(a, b) == IF a <= b THEN a ELSE b

\* Python's int(): truncation towards zero of a fixed-point number
IntTrunc(f) == IF f >= 0 THEN f \div SubPixel ELSE -((-f) \div SubPixel)

\* pygame.Rect((x, y), (w, h)) from float coordinates: each is truncated
Rect(topleft, sz) ==
    [x |-> IntTrunc(topleft[1]), y |-> IntTrunc(topleft[2]),
     w |-> sz[1], h |-> sz[2]]

\* a rectangle given in whole pixels
PixelRect(x, y, w, h) == [x |-> x, y |-> y, w |-> w, h |-> h]

\* pygame.Rect.union: the smallest rectangle holding both
Union(a, b) ==
    LET x == Min(a.x, b.x)
        y == Min(a.y, b.y)
    IN  [x |-> x, y |-> y,
         w |-> Max(a.x + a.w, b.x + b.w) - x,
         h |-> Max(a.y + a.h, b.y + b.h) - y]

\* pygame.Rect.colliderect: the interiors overlap
Intersects(a, b) ==
    /\ a.x < b.x + b.w
    /\ b.x < a.x + a.w
    /\ a.y < b.y + b.h
    /\ b.y < a.y + a.h

Inside(a, outer) ==
    /\ outer.x <= a.x
    /\ a.x + a.w <= outer.x + outer.w
    /\ outer.y <= a.y
    /\ a.y + a.h <= outer.y + outer.h

(* ------------------------- scene and animations ------------------------ *)

Directions == {"north", "east", "south", "west"}

\* Scene.collide_check: does the rectangle intersect any solid tile
collide_check(sc, r) == \E t \in sc.solid : Intersects(r, t)

\* Animation.largest_frame_size of the walkabout's current animation, which
\* is chosen by the action and the direction just recorded
largest_frame_size(sheet, act, dir) == sheet[dir]

UniformSheet(w, h) == [d \in Directions |-> <<w, h>>]

\* a walkabout whose east/west walking frames are wider than the others
WideSheet ==
    [d \in Directions |-> IF d \in {"east", "west"} THEN <<2, 1>> ELSE <<1, 1>>]

\* the worlds of the general specification: a map extent, its solid tiles,
\* the walkabout's frame sizes and the actor's size at construction
Worlds ==
    { [scene |-> [extent |-> PixelRect(0, 0, 4, 2),
                  solid |-> {PixelRect(2, 0, 1, 1)}],
       sheet |-> UniformSheet(1, 1), size |-> <<1, 1>>],
      [scene |-> [extent |-> PixelRect(-2, 0, 5, 1),
                  solid |-> {PixelRect(1, 0, 1, 1)}],
       sheet |-> WideSheet, size |-> <<1, 1>>] }

\* the worlds of the east-moving 16x16 scenario: the tile at [108,124) and,
\* for comparison, the tile one pixel beyond the actor's right edge
ScenarioWorlds ==
    { [scene |-> [extent |-> PixelRect(98, 100, 36, 17),
                  solid |-> {PixelRect(tx, 100, 16, 16)}],
       sheet |-> UniformSheet(16, 16), size |-> <<16, 16>>] : tx \in {108, 117} }

\* the world of the open-field scenario: the 16x16 actor at (100,100) with
\* no solid tile nearby (the nearest begins 6 pixels beyond its right edge)
StrideWorlds ==
    { [scene |-> [extent |-> PixelRect(100, 100, 38, 17),
                  solid |-> {PixelRect(122, 100, 16, 16)}],
       sheet |-> UniformSheet(16, 16), size |-> <<16, 16>>] }

(* ------------------------------ inputs --------------------------------- *)

\* velocity components, fixed-point: negative and fractional (-1.5 pixels for
\* SubPixel = 2), fractional and whole (zero is the other axis' component)
VelocityValues ==
    {-(SubPixel + 1), SubPixel + 1} \cup {k * SubPixel : k \in 2..MaxVelocity}

Velocities ==
    {<<v, 0>> : v \in VelocityValues} \cup {<<0, v>> : v \in VelocityValues}

\* the velocities of the open-field scenario: (5, 0) with the others
StrideVelocities == Velocities \cup {<<5 * SubPixel, 0>>}

\* game.screen.time_elapsed_milliseconds
ElapsedValues == {k * (1000 \div SubPixel) : k \in 1..MaxElapsed}

(* ------------------------------- state --------------------------------- *)

VARIABLES
    scene,                      \* game.scene: extent and solid tiles
    sheet,                      \* walkabout animations: largest frame sizes
    direction,                  \* walkabout.direction
    action,                     \* walkabout.action
    size,                       \* walkabout.size
    rect,                       \* walkabout.rect
    topleft_float,              \* walkabout.topleft_float
    velocity,                   \* self.velocity
    time_elapsed_milliseconds,  \* game.screen.time_elapsed_milliseconds
    arg_direction,              \* the direction argument of the last call
    before,                     \* rect, topleft_float, size when it began
    tried,                      \* the candidates the last call tested
    returned,                   \* what the last call returned
    active,                     \* NPC._active
    locked,                     \* Door.locked
    on_activation_calls,        \* invocations of on_activation so far
    on_deactivation_calls,      \* invocations of on_deactivation so far
    assigned,                   \* the last operation on NPC.active
    previous,                   \* NPC._active before that operation
    raised,                     \* the exception it raised
    scene_stack,                \* Game.scene_stack
    running,                    \* Game.running
    run_pc,                     \* where Game.run is
    event_queue,                \* events of this frame not yet handled
    constructed,                \* scenes constructed so far
    frames,                     \* scene updates performed so far
    updated,                    \* the scene whose update ran last
    handled,                    \* the last event and the scene it went to
    error,                      \* what raised the pending or last exception
    error_scene,                \* class of the scene it was raised in
    api,                        \* scene stack operation of the last step
    quit_seen,                  \* a QUIT event has been received
    tile_id,                    \* Tile.tile_id
    tile_flags,                 \* Tile.tile_flags
    tile_metadata,              \* Tile.tile_metadata["animation"]
    image,                      \* Tile.image
    tile_rect,                  \* Tile.rect
    animatedsprite,             \* Tile.animatedsprite
    tile_call                   \* what the last Tile.update did

actor_vars == <<direction, action, size, rect, topleft_float>>

call_vars == <<velocity, time_elapsed_milliseconds, arg_direction, before,
               tried, returned>>

player_vars == <<scene, sheet, actor_vars, call_vars>>

npc_vars == <<active, locked, on_activation_calls, on_deactivation_calls,
              assigned, previous, raised>>

game_vars == <<scene_stack, running, run_pc, event_queue, constructed, frames,
               updated, handled, error, error_scene, api, quit_seen>>

tile_vars == <<tile_id, tile_flags, tile_metadata, image, tile_rect,
               animatedsprite, tile_call>>

vars == <<player_vars, npc_vars, game_vars, tile_vars>>

(* --------------------------- HumanPlayer.move -------------------------- *)

\* the velocity component along the movement axis
planned_movement_in_pixels(d, v) ==
    IF d \in {"north", "south"} THEN v[2] ELSE v[1]

\* time_elapsed_milliseconds / 1000.0, fixed-point
InitialAdjSpeed(ms) == (ms * SubPixel) \div 1000

\* a step count rounded up, not down
IterPixelsRoundedUp(planned) == Max(1, IntTrunc(planned + SubPixel - 1))

iter_pixels(planned) == Max(1, IntTrunc(planned))

\* a loop without the "pixels == 2" assignment
NoClamp(pixels, adj_speed) == adj_speed

\* "if pixels == 2: adj_speed = 1": the assignment outlives the iteration
adj_speed_for(pixels, adj_speed) == IF pixels = 2 THEN SubPixel ELSE adj_speed

\* a sign slip: moving west adds to x
NewTopleftWestAdds(tf, d, pixels, adj_speed) ==
    CASE d = "north" -> <<tf[1], tf[2] - pixels * adj_speed>>
      [] d = "east"  -> <<tf[1] + pixels * adj_speed, tf[2]>>
      [] d = "south" -> <<tf[1], tf[2] + pixels * adj_speed>>
      [] d = "west"  -> <<tf[1] + pixels * adj_speed, tf[2]>>

new_topleft(tf, d, pixels, adj_speed) ==
    CASE d = "north" -> <<tf[1], tf[2] - pixels * adj_speed>>
      [] d = "east"  -> <<tf[1] + pixels * adj_speed, tf[2]>>
      [] d = "south" -> <<tf[1], tf[2] + pixels * adj_speed>>
      [] d = "west"  -> <<tf[1] - pixels * adj_speed, tf[2]>>

destination_rect(topleft, sz) == Rect(topleft, sz)

\* a test of the destination alone, not of the swept area
DestinationOnly(r, dest) == dest

collision_rect(r, dest) == Union(r, dest)

\* one iteration's candidate: what it computes and whether it is blocked
Candidate(pixels, adj_speed, d, tf, r, sz, sc) ==
    LET adj  == adj_speed_for(pixels, adj_speed)
        nt   == new_topleft(tf, d, pixels, adj)
        dest == destination_rect(nt, sz)
        coll == collision_rect(r, dest)
    IN  [pixels |-> pixels, adj_speed |-> adj, new_topleft |-> nt,
         destination_rect |-> dest, collision_rect |-> coll,
         hit |-> collide_check(sc, coll)]

\* for pixels in range(iter_pixels, 0, -1): the candidates tested, in order,
\* ending with the first that is collision-free
RECURSIVE TestPositions(_, _, _, _, _, _, _)
TestPositions(pixels, adj_speed, d, tf, r, sz, sc) ==
    IF pixels < 1 THEN <<>>
    ELSE LET c == CHOOSE x \in {Candidate(pixels, adj_speed, d, tf, r, sz, sc)} : TRUE
         IN  <<c>> \o (IF c.hit
                       THEN TestPositions(pixels - 1, c.adj_speed, d, tf, r, sz, sc)
                       ELSE <<>>)

\* "we're done, we can move!"
Commit(d, c) ==
    /\ direction' = d
    /\ action' = "walk"
    /\ size' = largest_frame_size(sheet, "walk", d)
    /\ rect' = c.destination_rect
    /\ topleft_float' = c.new_topleft
    /\ returned' = "True"

\* a blocked move that leaves the facing as it was
BlockedKeepsDirection(d) ==
    /\ direction' = direction
    /\ action' = "stand"
    /\ UNCHANGED <<size, rect, topleft_float>>
    /\ returned' = "False"

\* a blocked move that keeps the last position it tested
BlockedKeepsLastCandidate(d) ==
    /\ direction' = d
    /\ action' = "stand"
    /\ size' = size
    /\ rect' = tried'[Len(tried')].destination_rect
    /\ topleft_float' = tried'[Len(tried')].new_topleft
    /\ returned' = "False"

\* "never found an applicable destination"
Blocked(d) ==
    /\ direction' = d
    /\ action' = "stand"
    /\ UNCHANGED <<size, rect, topleft_float>>
    /\ returned' = "False"

Move(d, v, ms) ==
    \E t \in {TestPositions(iter_pixels(planned_movement_in_pixels(d, v)),
                            InitialAdjSpeed(ms), d, topleft_float, rect, size,
                            scene)} :
      \E last \in {t[Len(t)]} :
        /\ last.hit \/ Inside(last.destination_rect, scene.extent)
        /\ velocity' = v
        /\ time_elapsed_milliseconds' = ms
        /\ arg_direction' = d
        /\ before' = [rect |-> rect, topleft_float |-> topleft_float,
                      size |-> size]
        /\ tried' = t
        /\ IF last.hit THEN Blocked(d) ELSE Commit(d, last)
        /\ UNCHANGED <<scene, sheet, npc_vars, game_vars, tile_vars>>

(* ------------------------------- NPC ----------------------------------- *)

\* the values assigned to NPC.active: the two booleans and some others
Statuses == {"True", "False", "None", "1"}

\* Door.on_activation
on_activation ==
    /\ locked' = "True"
    /\ on_activation_calls' = on_activation_calls + 1
    /\ UNCHANGED on_deactivation_calls

\* Door.on_deactivation
on_deactivation ==
    /\ locked' = "False"
    /\ on_deactivation_calls' = on_deactivation_calls + 1
    /\ UNCHANGED on_activation_calls

\* a setter that runs a hook only when the flag changes
GuardedSetActive(status) ==
    /\ status = "True" => on_activation_calls < MaxHookCalls
    /\ status = "False" => on_deactivation_calls < MaxHookCalls
    /\ active' = status
    /\ assigned' = status
    /\ previous' = active
    /\ IF status = "True" /\ active # "True"
       THEN on_activation /\ raised' = "none"
       ELSE IF status = "False" /\ active # "False"
       THEN on_deactivation /\ raised' = "none"
       ELSE /\ raised' = IF status \in {"True", "False"} THEN "none" ELSE "ValueError"
            /\ UNCHANGED <<locked, on_activation_calls, on_deactivation_calls>>
    /\ UNCHANGED <<player_vars, game_vars, tile_vars>>

\* NPC.active = status
SetActive(status) ==
    /\ status = "True" => on_activation_calls < MaxHookCalls
    /\ status = "False" => on_deactivation_calls < MaxHookCalls
    /\ active' = status
    /\ assigned' = status
    /\ previous' = active
    /\ IF status = "True"
       THEN on_activation /\ raised' = "none"
       ELSE IF status = "False"
       THEN on_deactivation /\ raised' = "none"
       ELSE /\ raised' = "ValueError"
            /\ UNCHANGED <<locked, on_activation_calls, on_deactivation_calls>>
    /\ UNCHANGED <<player_vars, game_vars, tile_vars>>

\* del NPC.active
DeleteActive ==
    /\ raised' = "TypeError"
    /\ assigned' = "del"
    /\ previous' = active
    /\ UNCHANGED <<active, locked, on_activation_calls, on_deactivation_calls>>
    /\ UNCHANGED <<player_vars, game_vars, tile_vars>>

(* ------------------------------- Tile ---------------------------------- *)

\* TileFlags
NONE == 0
SOLID == 1
DESTRUCTIBLE == 2
ANIMATED == 4

\* flag in flags, for an IntFlag of one bit
HasFlag(flag, flags) == (flags \div flag) % 2 = 1

is_solid == HasFlag(SOLID, tile_flags)

is_destructible == HasFlag(DESTRUCTIBLE, tile_flags)

is_animated == HasFlag(ANIMATED, tile_flags)

\* the tile ids of the tilesheet, and the blank tile
TileIds == {-1, 0, 1}

\* pygame.Surface((tile_width, tile_height)): a new surface, no tile's image
NewSurface == -2

\* tilesheet.get_tile_subsurface(tileid): the surface is named by the tile
get_tile_subsurface(tileid) == tileid

\* image.get_rect(): every surface has the size of a tile
get_rect(surface) == PixelRect(0, 0, 16, 16)

\* a frame that starts where it ends
FrameAfterIncrement(surface, duration, tileduration) ==
    [surface |-> surface, start |-> duration + tileduration,
     duration |-> tileduration]

\* Frame(surface, duration, tileduration)
Frame(surface, duration, tileduration) ==
    [surface |-> surface, start |-> duration, duration |-> tileduration]

\* the loop of Tile.__init__ from pair idx on, duration being the sum so far
RECURSIVE BuildFrames(_, _, _)
BuildFrames(animation, idx, duration) ==
    IF idx > Len(animation) THEN <<>>
    ELSE <<Frame(get_tile_subsurface(animation[idx][1]), duration,
                 animation[idx][2])>>
         \o BuildFrames(animation, idx + 1, duration + animation[idx][2])

\* the cycle length of a sequence of frames
RECURSIVE TotalDuration(_)
TotalDuration(fs) ==
    IF fs = <<>> THEN 0 ELSE fs[1].duration + TotalDuration(Tail(fs))

\* the surface of the frame whose interval holds time t
SelectedImage(fs, t) ==
    LET hit == {k \in 1..Len(fs) :
                   fs[k].start <= t /\ t < fs[k].start + fs[k].duration}
    IN  IF hit = {} THEN fs[1].surface
        ELSE fs[CHOOSE k \in hit : \A j \in hit : k <= j].surface

\* AnimatedSprite(frames)
AnimatedSprite(fs) == [frames |-> fs, time |-> 0, image |-> fs[1].surface]

\* AnimatedSprite.update(timedelta): accumulate, wrap, select
AnimatedSpriteUpdate(sprite, timedelta) ==
    LET t == (sprite.time + timedelta) % TotalDuration(sprite.frames)
    IN  [sprite EXCEPT !.time = t, !.image = SelectedImage(sprite.frames, t)]

\* a tile that is not animated has no animatedsprite
NoSprite == [frames |-> <<>>, time |-> 0, image |-> NewSurface]

\* the animations of at most n frames
RECURSIVE Animations(_)
Animations(n) ==
    IF n = 0 THEN {<<>>}
    ELSE Animations(n - 1) \cup
         {Append(a, <<id, d>>) : a \in {x \in Animations(n - 1) : Len(x) = n - 1},
                                 id \in TileIds \ {-1}, d \in 1..MaxDuration}

NoTileCall ==
    [called |-> FALSE, forwarded |-> FALSE, image_set |-> FALSE,
     rect_set |-> FALSE]

\* Tile(tilesheet, id, flags, {"animation": animation})
InitTile(id, flags, animation) ==
    /\ tile_id = id
    /\ tile_flags = flags
    /\ tile_metadata = animation
    /\ image = NewSurface
    /\ tile_rect = get_rect(image)
    /\ animatedsprite = IF HasFlag(ANIMATED, flags)
                        THEN AnimatedSprite(BuildFrames(animation, 1, 0))
                        ELSE NoSprite
    /\ tile_call = NoTileCall

\* an update that does not test for the blank tile
NeverBlank(id) == FALSE

\* the blank tile
Blank(id) == id = -1

\* Tile.update(timedelta)
TileUpdate(timedelta) ==
    /\ IF Blank(tile_id)
       THEN /\ tile_call' = [NoTileCall EXCEPT !.called = TRUE]
            /\ UNCHANGED <<image, tile_rect, animatedsprite>>
       ELSE /\ IF is_animated
               THEN /\ animatedsprite' =
                         AnimatedSpriteUpdate(animatedsprite, timedelta)
                    /\ image' = animatedsprite'.image
               ELSE /\ image' = get_tile_subsurface(tile_id)
                    /\ UNCHANGED animatedsprite
            /\ tile_rect' = get_rect(image')
            /\ tile_call' = [called |-> TRUE, forwarded |-> is_animated,
                             image_set |-> TRUE, rect_set |-> TRUE]
    /\ UNCHANGED <<tile_id, tile_flags, tile_metadata>>
    /\ UNCHANGED <<player_vars, npc_vars, game_vars>>

(* ------------------------------- Game ---------------------------------- *)

SceneClasses == {"TilemapScene", "TracebackScene"}

Events == {"QUIT", "KEYDOWN"}

NoScene == [cls |-> "none", id |-> 0]

\* scenecls(self, ...): the next scene constructed
NewScene(cls) == [cls |-> cls, id |-> constructed + 1]

Top(stack) == stack[Len(stack)]

\* scene_push, the constructor having returned
scene_push(stack, sc) == Append(stack, sc)

\* scene_pop
scene_pop(stack) == SubSeq(stack, 1, Len(stack) - 1)

\* a replace that does not clear the stack
ReplaceKeepsStack(stack, sc) == Append(stack, sc)

\* scene_replace, the constructor having returned
scene_replace(stack, sc) == scene_push(<<>>, sc)

\* scene_replace up to the constructor's exception: the stack is cleared
scene_replace_failed(stack) == <<>>

\* what pygame.event.get() may return for one frame
RECURSIVE EventBatches(_)
EventBatches(n) ==
    IF n = 0 THEN {<<>>}
    ELSE EventBatches(n - 1) \cup
         {Append(b, e) : b \in {x \in EventBatches(n - 1) : Len(x) = n - 1},
                         e \in Events}

\* what a scene's update or handle_event does: it returns, it raises, or it
\* calls one scene stack operation of the game (whose constructor may raise);
\* the diagnostic scene only displays: it returns or raises
Outcomes(cls) ==
    IF cls = "TracebackScene"
    THEN {"return", "raise"}
    ELSE {"return", "raise", "scene_push", "scene_push_failed", "scene_pop",
          "scene_replace", "scene_replace_failed"}

Raises(o) == o \in {"raise", "scene_push_failed", "scene_replace_failed"}

Constructs(o) == o \in {"scene_push", "scene_replace"}

\* the outcome can happen within the model's bounds
WithinBounds(o) ==
    /\ Constructs(o) => constructed < MaxScenes
    /\ o = "scene_push" => Len(scene_stack) < MaxStack

\* the effect of a callback of outcome o on the stack
Callback(o) ==
    /\ scene_stack' =
         CASE o = "scene_push" ->
                  scene_push(scene_stack, NewScene("TilemapScene"))
           [] o = "scene_pop" -> scene_pop(scene_stack)
           [] o = "scene_replace" ->
                  scene_replace(scene_stack, NewScene("TilemapScene"))
           [] o = "scene_replace_failed" -> scene_replace_failed(scene_stack)
           [] OTHER -> scene_stack
    /\ constructed' = IF Constructs(o) THEN constructed + 1 ELSE constructed
    /\ api' = IF o \in {"return", "raise"} THEN "none" ELSE o

\* a loop that does not test self.running
LoopForever == TRUE

\* while self.running
LoopCondition == running

\* an exception handler without the isinstance test
HandlerAlwaysPushes == FALSE

\* isinstance(self.scene_stack[-1], TracebackScene)
TopIsTraceback == Top(scene_stack).cls = "TracebackScene"

\* Game.run up to the loop: running = True, then the starting scene is pushed
RunStart(ok) ==
    /\ run_pc = "new"
    /\ running' = TRUE
    /\ IF ok
       THEN /\ constructed < MaxScenes /\ Len(scene_stack) < MaxStack
            /\ scene_stack' = scene_push(scene_stack, NewScene("TilemapScene"))
            /\ constructed' = constructed + 1
            /\ api' = "scene_push"
            /\ run_pc' = "loop"
            /\ UNCHANGED <<error, error_scene>>
       ELSE /\ api' = "scene_push_failed"
            /\ run_pc' = "raised"
            /\ error' = "construction"
            /\ error_scene' = "none"
            /\ UNCHANGED <<scene_stack, constructed>>
    /\ UNCHANGED <<event_queue, frames, updated, handled, quit_seen>>
    /\ UNCHANGED <<player_vars, npc_vars, tile_vars>>

\* self.scene_stack[-1].update() inside the try, then the blit and event.get()
Update(o, batch) ==
    /\ run_pc = "loop"
    /\ LoopCondition
    /\ frames < MaxFrames
    /\ IF scene_stack = <<>>
       THEN /\ o = "return" /\ batch = <<>>
            /\ run_pc' = "except_update"
            /\ error' = "IndexError"
            /\ error_scene' = "none"
            /\ api' = "none"
            /\ UNCHANGED <<scene_stack, constructed, frames, updated,
                           event_queue>>
       ELSE /\ o \in Outcomes(Top(scene_stack).cls)
            /\ WithinBounds(o)
            /\ Callback(o)
            /\ frames' = frames + 1
            /\ updated' = Top(scene_stack)
            /\ IF Raises(o)
               THEN /\ batch = <<>>
                    /\ run_pc' = "except_update"
                    /\ error' = "update"
                    /\ error_scene' = Top(scene_stack).cls
                    /\ UNCHANGED event_queue
               ELSE IF scene_stack' = <<>>
               THEN /\ batch = <<>>
                    /\ run_pc' = "raised"
                    /\ error' = "IndexError"
                    /\ error_scene' = "none"
                    /\ UNCHANGED event_queue
               ELSE /\ run_pc' = "events"
                    /\ event_queue' = batch
                    /\ UNCHANGED <<error, error_scene>>
    /\ UNCHANGED <<running, handled, quit_seen>>
    /\ UNCHANGED <<player_vars, npc_vars, tile_vars>>

\* the except clause of either try: re-raise under the diagnostic scene,
\* otherwise push a TracebackScene and continue
Except(from, to) ==
    /\ run_pc = from
    /\ IF scene_stack = <<>>
       THEN /\ run_pc' = "raised"
            /\ error' = "IndexError"
            /\ error_scene' = "none"
            /\ api' = "none"
            /\ UNCHANGED <<scene_stack, constructed>>
       ELSE IF TopIsTraceback
       THEN /\ run_pc' = "raised"
            /\ api' = "none"
            /\ UNCHANGED <<scene_stack, constructed, error, error_scene>>
       ELSE /\ constructed < MaxScenes + 1
            /\ scene_stack' = scene_push(scene_stack, NewScene("TracebackScene"))
            /\ constructed' = constructed + 1
            /\ api' = "scene_push"
            /\ run_pc' = to
            /\ UNCHANGED <<error, error_scene>>
    /\ UNCHANGED <<running, event_queue, frames, updated, handled, quit_seen>>
    /\ UNCHANGED <<player_vars, npc_vars, tile_vars>>

ExceptUpdate == Except("except_update", "loop")

ExceptEvent == Except("except_event", "events")

\* one iteration of "for ev in pygame.event.get()" up to the except clause
HandleEvent(o) ==
    /\ run_pc = "events"
    /\ event_queue # <<>>
    /\ event_queue' = Tail(event_queue)
    /\ running' = IF Head(event_queue) = "QUIT" THEN FALSE ELSE running
    /\ quit_seen' = (quit_seen \/ Head(event_queue) = "QUIT")
    /\ IF scene_stack = <<>>
       THEN /\ o = "return"
            /\ run_pc' = "except_event"
            /\ error' = "IndexError"
            /\ error_scene' = "none"
            /\ api' = "none"
            /\ UNCHANGED <<scene_stack, constructed, handled>>
       ELSE /\ o \in Outcomes(Top(scene_stack).cls)
            /\ WithinBounds(o)
            /\ Callback(o)
            /\ handled' = [event |-> Head(event_queue), scene |-> Top(scene_stack)]
            /\ IF Raises(o)
               THEN /\ run_pc' = "except_event"
                    /\ error' = "handle_event"
                    /\ error_scene' = Top(scene_stack).cls
               ELSE UNCHANGED <<run_pc, error, error_scene>>
    /\ UNCHANGED <<frames, updated>>
    /\ UNCHANGED <<player_vars, npc_vars, tile_vars>>

\* the rest of the frame: FPS display, clock tick, display flip
EndFrame ==
    /\ run_pc = "events"
    /\ event_queue = <<>>
    /\ run_pc' = "loop"
    /\ api' = "none"
    /\ UNCHANGED <<scene_stack, running, event_queue, constructed, frames,
                   updated, handled, error, error_scene, quit_seen>>
    /\ UNCHANGED <<player_vars, npc_vars, tile_vars>>

\* the loop condition is false: Game.run returns
Finish ==
    /\ run_pc = "loop"
    /\ ~LoopCondition
    /\ run_pc' = "returned"
    /\ api' = "none"
    /\ UNCHANGED <<scene_stack, running, event_queue, constructed, frames,
                   updated, handled, error, error_scene, quit_seen>>
    /\ UNCHANGED <<player_vars, npc_vars, tile_vars>>

\* a scene stack operation called on the game before Game.run
ApiCall(o) ==
    /\ run_pc = "new"
    /\ o \in Outcomes("TilemapScene") \ {"return", "raise"}
    /\ WithinBounds(o)
    /\ IF o = "scene_pop" /\ scene_stack = <<>>
       THEN /\ api' = "scene_pop_failed"
            /\ UNCHANGED <<scene_stack, constructed>>
       ELSE Callback(o)
    /\ UNCHANGED <<running, run_pc, event_queue, frames, updated, handled,
                   error, error_scene, quit_seen>>
    /\ UNCHANGED <<player_vars, npc_vars, tile_vars>>

(* --------------------------- specifications ---------------------------- *)

NoCall ==
    /\ velocity = <<0, 0>>
    /\ time_elapsed_milliseconds = 0
    /\ arg_direction = "none"
    /\ tried = <<>>
    /\ returned = "none"

\* NPC.__init__ and Door.__init__
InitNPC ==
    /\ active = "False"
    /\ locked = "False"
    /\ on_activation_calls = 0
    /\ on_deactivation_calls = 0
    /\ assigned = "none"
    /\ previous = "False"
    /\ raised = "none"

\* Game.__init__
InitGame ==
    /\ scene_stack = <<>>
    /\ running = FALSE
    /\ run_pc = "new"
    /\ event_queue = <<>>
    /\ constructed = 0
    /\ frames = 0
    /\ updated = NoScene
    /\ handled = [event |-> "none", scene |-> NoScene]
    /\ error = "none"
    /\ error_scene = "none"
    /\ api = "none"
    /\ quit_seen = FALSE

\* an actor standing at a whole-pixel position of world w
InitActor(w, x, y) ==
    /\ scene = w.scene
    /\ sheet = w.sheet
    /\ direction = "south"
    /\ action = "stand"
    /\ size = w.size
    /\ topleft_float = <<x * SubPixel, y * SubPixel>>
    /\ rect = Rect(topleft_float, size)
    /\ before = [rect |-> rect, topleft_float |-> topleft_float, size |-> size]

\* any actor of a general world whose bounding box overlaps no solid tile
Init ==
    /\ \E w \in Worlds :
         \E x \in w.scene.extent.x .. (w.scene.extent.x + w.scene.extent.w - 1),
            y \in w.scene.extent.y .. (w.scene.extent.y + w.scene.extent.h - 1) :
            /\ InitActor(w, x, y)
            /\ Inside(rect, scene.extent)
            /\ ~collide_check(scene, rect)
    /\ NoCall
    /\ InitNPC
    /\ InitGame
    /\ InitTile(-1, NONE, <<>>)

\* the 16x16 actor at (100, 100)
InitScenario ==
    /\ \E w \in ScenarioWorlds : InitActor(w, 100, 100)
    /\ NoCall
    /\ InitNPC
    /\ InitGame
    /\ InitTile(-1, NONE, <<>>)

\* the 16x16 actor at (100, 100) in the open field
InitStride ==
    /\ \E w \in StrideWorlds : InitActor(w, 100, 100)
    /\ NoCall
    /\ InitNPC
    /\ InitGame
    /\ InitTile(-1, NONE, <<>>)

\* any tile: an animated tile has a non-empty animation
InitTiles ==
    /\ \E w \in StrideWorlds : InitActor(w, 100, 100)
    /\ NoCall
    /\ InitNPC
    /\ InitGame
    /\ \E id \in TileIds, flags \in NONE..(SOLID + DESTRUCTIBLE + ANIMATED) :
         \E animation \in IF HasFlag(ANIMATED, flags)
                          THEN Animations(MaxAnimationFrames) \ {<<>>}
                          ELSE {<<>>} :
            InitTile(id, flags, animation)

NextTile == \E timedelta \in 0..MaxDelta : TileUpdate(timedelta)

SpecTile == InitTiles /\ [][NextTile]_vars

NextStride ==
    \E d \in Directions, v \in StrideVelocities, ms \in ElapsedValues :
        Move(d, v, ms)

NextMove ==
    \E d \in Directions, v \in Velocities, ms \in ElapsedValues : Move(d, v, ms)

NextNPC ==
    \/ \E status \in Statuses : SetActive(status)
    \/ DeleteActive

Spec == Init /\ [][NextMove]_vars

SpecScenario == InitScenario /\ [][NextMove]_vars

NextGame ==
    \/ \E ok \in BOOLEAN : RunStart(ok)
    \/ \E o \in Outcomes("TilemapScene"), batch \in EventBatches(MaxEvents) :
          Update(o, batch)
    \/ ExceptUpdate
    \/ \E o \in Outcomes("TilemapScene") : HandleEvent(o)
    \/ ExceptEvent
    \/ EndFrame
    \/ Finish
    \/ \E o \in Outcomes("TilemapScene") : ApiCall(o)

SpecGame == InitScenario /\ [][NextGame]_vars

SpecStride == InitStride /\ [][NextStride]_vars

SpecNPC == InitScenario /\ [][NextNPC]_vars

(* ------------------------- observations of a call ---------------------- *)

\* the displacement a candidate applies along the requested direction
Displacement(c) == c.pixels * c.adj_speed

\* every candidate of the last call's loop, had it not stopped at a commit
RECURSIVE AllPositions(_, _, _, _, _, _, _)
AllPositions(pixels, adj_speed, d, tf, r, sz, sc) ==
    IF pixels < 1 THEN {}
    ELSE LET c == CHOOSE x \in {Candidate(pixels, adj_speed, d, tf, r, sz, sc)} : TRUE
         IN  {c} \cup AllPositions(pixels - 1, c.adj_speed, d, tf, r, sz, sc)

LastCallCandidates ==
    AllPositions(iter_pixels(planned_movement_in_pixels(arg_direction, velocity)),
                 InitialAdjSpeed(time_elapsed_milliseconds), arg_direction,
                 before.topleft_float, before.rect, before.size, scene)

\* tile t lies between rectangles a and b along the axis of direction d
TileBetween(t, a, b, d) ==
    CASE d = "east"  -> a.x + a.w <= t.x /\ t.x + t.w <= b.x
                        /\ t.y < a.y + a.h /\ a.y < t.y + t.h
      [] d = "west"  -> b.x + b.w <= t.x /\ t.x + t.w <= a.x
                        /\ t.y < a.y + a.h /\ a.y < t.y + t.h
      [] d = "south" -> a.y + a.h <= t.y /\ t.y + t.h <= b.y
                        /\ t.x < a.x + a.w /\ a.x < t.x + t.w
      [] d = "north" -> b.y + b.h <= t.y /\ t.y + t.h <= a.y
                        /\ t.x < a.x + a.w /\ a.x < t.x + t.w
      [] OTHER -> FALSE

PositionChanged == rect # before.rect \/ topleft_float # before.topleft_float

(* ------------------------------- claims -------------------------------- *)

\* C1: after any sequence of moves from a collision-free start, the actor's
\* bounding box at its committed position, with the size it has now,
\* overlaps no solid tile
C1_BoundingBoxFree == ~collide_check(scene, Rect(topleft_float, size))

\* C2: a position is committed only for a candidate whose union rectangle
\* (start rectangle with destination rectangle) intersects no solid tile, so
\* no solid tile lies between the start and the end of a committed move
C2_CommitOnlyUnionFree ==
    (returned = "True" \/ PositionChanged) =>
        /\ returned = "True"
        /\ ~collide_check(scene, Union(before.rect, rect))
        /\ \A t \in scene.solid : ~TileBetween(t, before.rect, rect, arg_direction)

\* a committed move that followed a blocked, longer candidate
C2_Witness ==
    /\ returned = "True"
    /\ Len(tried) >= 2
    /\ tried[1].hit
    /\ rect # before.rect

\* C3: the candidates of one call are tried in strictly decreasing
\* displacement, so the committed displacement is the largest among the
\* collision-free candidate displacements
C3_LargestFreeDisplacement ==
    /\ \A i \in 1..(Len(tried) - 1) :
           Displacement(tried[i]) > Displacement(tried[i + 1])
    /\ returned = "True" =>
           \A c \in LastCallCandidates :
               ~c.hit => Displacement(c) <= Displacement(tried[Len(tried)])

\* C4: a call whose every candidate is blocked returns False, sets the action
\* to stand and leaves rectangle, float position and size as they were; the
\* same call repeated returns False again with the position identical
C4_BlockedMoveChangesNothing ==
    [][ /\ returned' = "False" =>
              /\ action' = "stand"
              /\ rect' = rect
              /\ topleft_float' = topleft_float
              /\ size' = size
        /\ ( /\ returned = "False"
             /\ arg_direction' = arg_direction
             /\ velocity' = velocity
             /\ time_elapsed_milliseconds' = time_elapsed_milliseconds ) =>
              /\ returned' = "False"
              /\ rect' = rect
              /\ topleft_float' = topleft_float ]_vars

\* a blocked call that tested more than one candidate
C4_Witness ==
    /\ returned = "False"
    /\ Len(tried) >= 2
    /\ \A i \in 1..Len(tried) : tried[i].hit
    /\ action = "stand"

\* C5: assigning a value that is neither True nor False to active raises
\* the error and leaves the flag as it was, with no hook invoked
C5_RejectedAssignmentKeepsState ==
    [][ raised' = "ValueError" =>
            /\ active' = active
            /\ UNCHANGED <<locked, on_activation_calls, on_deactivation_calls>> ]_vars

\* C6: the flag is exactly True or exactly False in every reachable state,
\* and deleting it raises the error and changes nothing
C6_FlagAlwaysBoolean ==
    [][ /\ active' \in {"True", "False"}
        /\ assigned' = "del" =>
              /\ raised' = "TypeError"
              /\ UNCHANGED <<active, locked, on_activation_calls,
                             on_deactivation_calls>> ]_vars

\* C7: assigning True runs on_activation exactly once and on_deactivation
\* not at all, assigning False the reverse, whatever the flag was; active
\* then reads back the assigned value and Door.locked equals it
C7_HookPerAssignment ==
    [][ /\ assigned' = "True" =>
              /\ on_activation_calls' = on_activation_calls + 1
              /\ on_deactivation_calls' = on_deactivation_calls
              /\ active' = "True"
              /\ locked' = active'
              /\ raised' = "none"
        /\ assigned' = "False" =>
              /\ on_deactivation_calls' = on_deactivation_calls + 1
              /\ on_activation_calls' = on_activation_calls
              /\ active' = "False"
              /\ locked' = active'
              /\ raised' = "none" ]_vars

\* True assigned to a flag that already was True: the hook ran again
C7_Witness ==
    /\ assigned = "True"
    /\ previous = "True"
    /\ active = "True"
    /\ on_activation_calls >= 2
    /\ on_deactivation_calls = 0

\* C8: a candidate of step count k is displaced by k times the elapsed
\* seconds for every k other than 2, and by exactly 2 pixels for k = 2
C8_ClampOnlyAtTwo ==
    \A i \in 1..Len(tried) :
        Displacement(tried[i]) =
            IF tried[i].pixels = 2
            THEN 2 * SubPixel
            ELSE tried[i].pixels * InitialAdjSpeed(time_elapsed_milliseconds)

FirstScenarioCall(tx) ==
    /\ returned = "none"
    /\ PixelRect(tx, 100, 16, 16) \in scene.solid
    /\ arg_direction' = "east"
    /\ velocity' = <<2 * SubPixel, 0>>

\* C9: the 16x16 actor at (100,100), velocity (2,0), moving east against
\* the solid tile at [108,124)x[100,116) commits a 1-pixel step, ends at
\* x = 101 and returns True
C9_ScenarioCommitsOnePixel ==
    [][ FirstScenarioCall(108) =>
            /\ returned' = "True"
            /\ tried'[Len(tried')].pixels = 1
            /\ rect'.x = 101
            /\ topleft_float' = <<101 * SubPixel, 100 * SubPixel>> ]_vars

\* C9 as amended: the actor's rectangle [100,116) already overlaps that
\* tile, so both candidates are blocked, the call returns False and the
\* actor stays at x = 100; the 1-pixel commit to x = 101 is what happens
\* when the tile begins at x = 117, one pixel beyond the actor's right edge
C9_ScenarioBlocked ==
    [][ /\ FirstScenarioCall(108) =>
              /\ returned' = "False"
              /\ Len(tried') = 2
              /\ rect' = rect /\ rect'.x = 100
              /\ topleft_float' = <<100 * SubPixel, 100 * SubPixel>>
        /\ FirstScenarioCall(117) =>
              /\ returned' = "True"
              /\ Len(tried') = 2
              /\ tried'[Len(tried')].pixels = 1
              /\ rect'.x = 101
              /\ topleft_float' = <<101 * SubPixel, 100 * SubPixel>> ]_vars

\* the scenario's call has returned, blocked by the tile at 108
C9_Witness ==
    /\ PixelRect(108, 100, 16, 16) \in scene.solid
    /\ before.topleft_float = <<100 * SubPixel, 100 * SubPixel>>
    /\ arg_direction = "east"
    /\ velocity = <<2 * SubPixel, 0>>
    /\ returned = "False"
    /\ rect.x = 100

\* C10: every call records the requested direction on the actor, whether it
\* commits or is blocked
C10_DirectionRecorded == returned # "none" => direction = arg_direction

\* a blocked call that turned the actor away from its initial facing
C10_Witness ==
    /\ returned = "False"
    /\ arg_direction = "east"
    /\ direction = "east"

\* the floor of a fixed-point number, in whole pixels
Floor(f) == f \div SubPixel

\* max_step of the last call: max(1, floor(planned_pixels))
MaxStep == Max(1, Floor(planned_movement_in_pixels(arg_direction, velocity)))

\* C11: for every velocity (zero and negative included) a call tries the step
\* counts max_step, max_step - 1, ... with max_step = max(1, floor(planned)):
\* at least one and at most max_step collision queries, never a step count
\* below 1, and it ends with True or False
C11_StepCountsFromMaxStepDown ==
    returned # "none" =>
        /\ returned \in {"True", "False"}
        /\ Len(tried) >= 1
        /\ Len(tried) <= MaxStep
        /\ \A i \in 1..Len(tried) :
               /\ tried[i].pixels = MaxStep - (i - 1)
               /\ tried[i].pixels >= 1
        /\ returned = "False" => Len(tried) = MaxStep

\* a call with a negative velocity component made its single 1-pixel query
C11_Witness ==
    /\ returned # "none"
    /\ planned_movement_in_pixels(arg_direction, velocity) < 0
    /\ Len(tried) = 1
    /\ tried[1].pixels = 1

\* speed_factor of spec 4.3: the elapsed seconds, forced to 1 at step count 2
SpeedFactor(k) ==
    IF k = 2 THEN SubPixel ELSE (time_elapsed_milliseconds * SubPixel) \div 1000

\* the float position max_step * speed_factor along the requested direction
FullStepTopleft ==
    LET dist == MaxStep * SpeedFactor(MaxStep)
        x == before.topleft_float[1]
        y == before.topleft_float[2]
    IN  CASE arg_direction = "north" -> <<x, y - dist>>
          [] arg_direction = "east"  -> <<x + dist, y>>
          [] arg_direction = "south" -> <<x, y + dist>>
          [] arg_direction = "west"  -> <<x - dist, y>>

\* no solid tile intersects the union rectangle of the first candidate
FirstCandidateFree ==
    ~collide_check(scene, Union(before.rect, Rect(FullStepTopleft, before.size)))

\* C12: when the union rectangle of the first candidate (step count
\* max_step) is free of solid tiles the call commits on its first and only
\* iteration: displaced by max_step * speed_factor along the direction, the
\* perpendicular coordinate unchanged, action walk, returns True
C12_FreeFirstCandidateCommitsFullStep ==
    (returned # "none" /\ FirstCandidateFree) =>
        /\ returned = "True"
        /\ Len(tried) = 1
        /\ tried[1].pixels = MaxStep
        /\ topleft_float = FullStepTopleft
        /\ rect = Rect(FullStepTopleft, before.size)
        /\ action = "walk"

\* velocity (5, 0) with speed_factor 1 in the open field: 5 pixels east
C12_Witness ==
    /\ returned = "True"
    /\ velocity = <<5 * SubPixel, 0>>
    /\ time_elapsed_milliseconds = 1000
    /\ arg_direction = "east"
    /\ Len(tried) = 1
    /\ before.topleft_float = <<100 * SubPixel, 100 * SubPixel>>
    /\ topleft_float = <<105 * SubPixel, 100 * SubPixel>>
    /\ rect.x = 105 /\ rect.y = 100

\* the run is in one of its two except clauses
InExcept == run_pc \in {"except_update", "except_event"}

\* C13: an error raised while loading or running a non-diagnostic scene
\* (scene construction, update, event handling) does not terminate Game.run:
\* the run catches it, pushes a TracebackScene on top and goes on
C13_ErrorsBecomeDiagnostics ==
    [][/\ (error' \in {"construction", "update", "handle_event"}
              /\ error_scene' # "TracebackScene") => run_pc' # "raised"
       /\ (InExcept /\ error_scene = "TilemapScene") =>
              /\ scene_stack' =
                     Append(scene_stack, NewScene("TracebackScene"))
              /\ run_pc' \in {"loop", "events"}]_vars

\* C14: Tile.update on a blank tile (tile_id = -1) changes nothing, whatever
\* the flags: image, bounding box and animation clock stay as they are; on
\* any other tile it advances the animation clock exactly when the tile is
\* animated, and otherwise sets the image to the sub-image of tile_id
C14_BlankTileUpdateIsNoOp ==
    [][IF tile_id = -1
       THEN /\ image' = image
            /\ tile_rect' = tile_rect
            /\ animatedsprite' = animatedsprite
            /\ ~tile_call'.forwarded
            /\ ~tile_call'.image_set
            /\ ~tile_call'.rect_set
       ELSE /\ tile_call'.forwarded <=> HasFlag(ANIMATED, tile_flags)
            /\ HasFlag(ANIMATED, tile_flags) =>
                   /\ \E timedelta \in 0..MaxDelta :
                          animatedsprite'.time =
                              (animatedsprite.time + timedelta)
                                  % TotalDuration(animatedsprite.frames)
                   /\ image' = animatedsprite'.image
            /\ ~HasFlag(ANIMATED, tile_flags) =>
                   /\ animatedsprite' = animatedsprite
                   /\ image' = get_tile_subsurface(tile_id)]_vars

\* a blank animated tile after an update: nothing but the call happened
C14_Witness ==
    /\ tile_id = -1
    /\ HasFlag(ANIMATED, tile_flags)
    /\ Len(animatedsprite.frames) >= 2
    /\ tile_call.called
    /\ ~tile_call.forwarded
    /\ image = NewSurface
    /\ animatedsprite.time = 0

\* the sum of the durations of the first n pairs of an animation
RECURSIVE SumDurations(_, _)
SumDurations(animation, n) ==
    IF n = 0 THEN 0 ELSE SumDurations(animation, n - 1) + animation[n][2]

\* the frames whose interval [start, start + duration) holds time t
FramesAt(fs, t) ==
    {k \in 1..Len(fs) : fs[k].start <= t /\ t < fs[k].start + fs[k].duration}

\* C15: the frames of an animated tile are created with start times equal to
\* the sum of the durations of the frames before them: their intervals
\* [start, start + duration) are pairwise disjoint, in sequence order, and
\* cover exactly [0, T), T being the sum of all durations
C15_FrameIntervalsPartitionCycle ==
    HasFlag(ANIMATED, tile_flags) =>
        LET fs == animatedsprite.frames
            T == SumDurations(tile_metadata, Len(tile_metadata))
        IN  /\ Len(fs) = Len(tile_metadata)
            /\ \A k \in 1..Len(fs) :
                   /\ fs[k].start = SumDurations(tile_metadata, k - 1)
                   /\ fs[k].duration = tile_metadata[k][2]
                   /\ fs[k].surface = tile_metadata[k][1]
                   /\ 0 <= fs[k].start
                   /\ fs[k].start + fs[k].duration <= T
            /\ \A j, k \in 1..Len(fs) :
                   j < k => fs[j].start + fs[j].duration <= fs[k].start
            /\ \A t \in 0..(T - 1) : Cardinality(FramesAt(fs, t)) = 1

\* three frames of durations 2, 1, 2 start at 0, 2 and 3
C15_Witness ==
    /\ HasFlag(ANIMATED, tile_flags)
    /\ tile_metadata = <<<<0, 2>>, <<1, 1>>, <<0, 2>>>>
    /\ animatedsprite.frames[1].start = 0
    /\ animatedsprite.frames[2].start = 2
    /\ animatedsprite.frames[3].start = 3

\* the step takes a QUIT event from the queue
QuitStep == run_pc = "events" /\ event_queue # <<>> /\ Head(event_queue) = "QUIT"

\* what holds of every step once QUIT has been received, whatever the top
\* scene is: running is False, no scene is updated, and from the head of
\* the loop the run returns
AfterQuit ==
    /\ quit_seen' => ~running'
    /\ QuitStep => quit_seen'
    /\ quit_seen => frames' = frames /\ updated' = updated
    /\ (quit_seen /\ run_pc = "loop") => run_pc' = "returned"
    /\ (quit_seen /\ run_pc = "events") => run_pc' # "raised"

\* C16 as stated: once QUIT is received running is False and no scene is
\* updated any more; the QUIT event is passed to the top scene's
\* handle_event, an error in the delivery only pushes a TracebackScene, and
\* when the frame's events are delivered the run terminates
C16_QuitDeliveredErrorsOnlyPush ==
    [][/\ AfterQuit
       /\ QuitStep =>
              /\ scene_stack # <<>>
              /\ handled' = [event |-> "QUIT", scene |-> Top(scene_stack)]
       /\ (quit_seen /\ run_pc = "except_event") =>
              /\ scene_stack' =
                     Append(scene_stack, NewScene("TracebackScene"))
              /\ run_pc' = "events"]_vars

\* C16, amended: once QUIT is received running is False and no scene is
\* updated any more; the QUIT event is passed to the top scene's
\* handle_event when there is a scene; an error in the delivery pushes a
\* TracebackScene when the top scene is not the diagnostic scene, and
\* otherwise propagates out of the run with the stack unchanged; when the
\* frame's events are delivered the run terminates
C16_QuitStopsUpdates ==
    [][/\ AfterQuit
       /\ (QuitStep /\ scene_stack # <<>>) =>
              handled' = [event |-> "QUIT", scene |-> Top(scene_stack)]
       /\ (quit_seen /\ run_pc = "except_event") =>
              IF scene_stack # <<>> /\ Top(scene_stack).cls # "TracebackScene"
              THEN /\ scene_stack' =
                          Append(scene_stack, NewScene("TracebackScene"))
                   /\ run_pc' = "events"
              ELSE /\ scene_stack' = scene_stack
                   /\ run_pc' = "raised"]_vars

\* QUIT went to a scene whose handle_event raised: a TracebackScene was
\* pushed, never updated, and the run returned
C16_Witness ==
    /\ run_pc = "returned"
    /\ quit_seen
    /\ ~running
    /\ handled.event = "QUIT"
    /\ handled.scene.cls = "TilemapScene"
    /\ error = "handle_event"
    /\ Top(scene_stack).cls = "TracebackScene"
    /\ updated.cls = "TilemapScene"

\* C17: the run never pushes a TracebackScene on top of a TracebackScene: an
\* error raised by update or handle_event of a TracebackScene propagates out
\* of Game.run, the scene stack unchanged
C17_DiagnosticErrorsPropagate ==
    [][/\ (scene_stack # <<>> /\ Top(scene_stack).cls = "TracebackScene") =>
              ~(/\ Len(scene_stack') > Len(scene_stack)
                /\ Top(scene_stack').cls = "TracebackScene")
       /\ (InExcept' /\ error_scene' = "TracebackScene") =>
              scene_stack' = scene_stack
       /\ (InExcept /\ error_scene = "TracebackScene") =>
              /\ run_pc' = "raised"
              /\ scene_stack' = scene_stack
              /\ error' = error]_vars

\* the diagnostic scene on top of the scene that failed raised in turn and
\* the run ended with that exception
C17_Witness ==
    /\ run_pc = "raised"
    /\ error_scene = "TracebackScene"
    /\ Len(scene_stack) = 2
    /\ scene_stack[1].cls = "TilemapScene"
    /\ scene_stack[2].cls = "TracebackScene"

\* C18: scene_push puts the newly constructed scene on top of an unchanged
\* stack, scene_pop removes exactly the top scene, after scene_replace the
\* stack holds the newly constructed scene alone, and a scene_push whose
\* constructor fails leaves the stack as it was
C18_SceneStackIsLifo ==
    [][/\ api' = "scene_push" =>
              /\ Len(scene_stack') = Len(scene_stack) + 1
              /\ SubSeq(scene_stack', 1, Len(scene_stack)) = scene_stack
              /\ Top(scene_stack').id = constructed + 1
              /\ \A i \in 1..Len(scene_stack) :
                     scene_stack[i].id # Top(scene_stack').id
       /\ api' = "scene_pop" =>
              /\ scene_stack # <<>>
              /\ Len(scene_stack') = Len(scene_stack) - 1
              /\ \A i \in 1..Len(scene_stack') :
                     scene_stack'[i] = scene_stack[i]
       /\ api' = "scene_replace" =>
              /\ Len(scene_stack') = 1
              /\ scene_stack'[1].id = constructed + 1
              /\ \A i \in 1..Len(scene_stack) :
                     scene_stack[i].id # scene_stack'[1].id
       /\ api' = "scene_push_failed" => scene_stack' = scene_stack]_vars

\* the third scene constructed replaced the whole stack during a frame
C18_Witness ==
    /\ api = "scene_replace"
    /\ scene_stack = <<[cls |-> "TilemapScene", id |-> 3]>>
    /\ run_pc = "events"

====
